---- MODULE Spec2Model ----
(***************************************************************************)
(* Model of the INNOnet data update coordinator                            *)
(* (custom_components/innonet/coordinator.py) and of the operations that   *)
(* trigger it (button.py, the precise one-shot timer).                     *)
(*                                                                         *)
(* Time is counted in seconds.  Python dicts are functions whose domain is *)
(* the set of keys present; Python None is the value None below.           *)
(* A datetime string is Iso(n) (a well-formed ISO-8601 text naming instant *)
(* n) or Garbage (a text that is no datetime).                             *)
(***************************************************************************)
EXTENDS Integers, Sequences, FiniteSets, TLC

VARIABLES
    data,                   \* self.data: the snapshot readers see, or None
    resolved_names,         \* self.resolved_names: logical key -> series name
    unsub_scheduled_update, \* self._unsub_scheduled_update: handle or NoHandle
    timers,                 \* one-shot timers armed in the event loop
    now,                    \* dt_util.now(), in seconds
    pc,                     \* position of the refresh cycle ("idle": none runs)
    cyc,                    \* the local dict `data` of the running cycle
    all_failed,             \* every HTTP request of the running/last cycle failed
    refresh_requested,      \* a refresh was requested and has not started yet
    outcome,                \* how the last cycle ended ("running": not yet)
    raised,                 \* the body of the last cycle raised
    env,                    \* what the server may answer (fixed by Init)
    forecast_list,          \* argument of _calculate_sun_window (analyzer spec)
    result,                 \* its return value (analyzer spec)
    got,                    \* history: data key -> the item the server delivered
                            \*   for it in the running/last cycle (empty once
                            \*   the timeout has cut the cycle)
    discovered,             \* history: the running cycle sent a discovery request
    fired,                  \* history: the precise timer fired and no cycle has
                            \*   started since
    loaded,                 \* the config entry is set up (not unloaded)
    args,                   \* arguments of a function applied on its own
    returned                \* the outcome of that call, NotCalled before it

vars == <<data, resolved_names, unsub_scheduled_update, timers, now, pc, cyc,
          all_failed, refresh_requested, outcome, raised, env, forecast_list,
          result, got, discovered, fired, loaded, args, returned>>

(***************************************************************************)
(* Bounds of the model.                                                    *)
(***************************************************************************)
MaxSlots == 1
MaxForecast == 3
MaxLen == 5
MaxItems == 2

(***************************************************************************)
(* Program constants.                                                      *)
(***************************************************************************)
SAFETY_MARGIN == 30
SUN_WINDOW_VALUE == 1
SLOT_MINUTES == 15
Slot == SLOT_MINUTES * 60

(***************************************************************************)
(* Python values.                                                          *)
(***************************************************************************)
None == [none |-> TRUE]
NoHandle == 0
EmptyDict == <<>>
Iso(n) == [iso |-> n]
Garbage == [raw |-> "n/a"]
\* None where a list is expected; apart from the list [None]
NoneList == <<[none |-> TRUE, list |-> FALSE]>>

\* the outcome of a call: it returned x, or it raised (x: what it left behind)
Returns(x) == [raised |-> FALSE, value |-> x]
Raises(x) == [raised |-> TRUE, value |-> x]
NotCalled == [called |-> FALSE]

\* bool(d) of a dict-or-None
Truthy(d) == d # None /\ DOMAIN d # {}

\* d.get(k)
Get(d, k) == IF k \in DOMAIN d THEN d[k] ELSE None

\* d.get(k, dflt)
GetOr(d, k, dflt) == IF k \in DOMAIN d THEN d[k] ELSE dflt

\* mutant: the assignment drops every other key
Put_Alone(m, k, v) == (k :> v)

\* d[k] = v
Put(m, k, v) == (k :> v) @@ m

\* dt_util.parse_datetime: None for a text that is no datetime
parse_datetime(s) == IF "iso" \in DOMAIN s THEN [dt |-> s.iso] ELSE None

SeqMin(s) == CHOOSE x \in {s[i] : i \in 1..Len(s)} :
                 \A j \in 1..Len(s) : x <= s[j]

(***************************************************************************)
(* _calculate_sun_window                                                   *)
(***************************************************************************)
IsSun(item) == Get(item, "v") = SUN_WINDOW_VALUE

\* for item in lst[from..]: if item.v != SUN_WINDOW_VALUE: return item.t
RECURSIVE FirstNonSun(_, _)
FirstNonSun(lst, from) ==
    IF from > Len(lst) THEN None
    ELSE IF ~IsSun(lst[from]) THEN Get(lst[from], "t")
    ELSE FirstNonSun(lst, from + 1)

\* mutant: the inner loop scans the whole list instead of forecast_list[i:]
RECURSIVE ScanInactive_WholeList(_, _)
ScanInactive_WholeList(lst, i) ==
    IF i > Len(lst) THEN [start |-> None, end |-> None]
    ELSE IF IsSun(lst[i])
         THEN [start |-> Get(lst[i], "t"), end |-> FirstNonSun(lst, 1)]
    ELSE ScanInactive_WholeList(lst, i + 1)

\* for i, item in enumerate(lst): if item.v == SUN_WINDOW_VALUE: ...
RECURSIVE ScanInactive(_, _)
ScanInactive(lst, i) ==
    IF i > Len(lst) THEN [start |-> None, end |-> None]
    ELSE IF IsSun(lst[i])
         THEN [start |-> Get(lst[i], "t"), end |-> FirstNonSun(lst, i)]
    ELSE ScanInactive(lst, i + 1)

\* mutant: the loop over the list lacks its break, so the last point whose
\* value differs supplies the end
RECURSIVE LastNonSun(_, _, _)
LastNonSun(lst, from, found) ==
    IF from > Len(lst) THEN found
    ELSE LastNonSun(lst, from + 1,
                    IF ~IsSun(lst[from]) THEN Get(lst[from], "t") ELSE found)

ActiveBranch_NoBreak(lst) ==
    [start |-> Get(lst[1], "t"), end |-> LastNonSun(lst, 1, None)]

ActiveBranch(lst) ==
    [start |-> Get(lst[1], "t"), end |-> FirstNonSun(lst, 1)]

\* mutant: the guard `if not forecast_list: return result` is missing, so
\* forecast_list[0] raises
calculate_sun_window_NoGuard(lst) ==
    IF lst = NoneList \/ Len(lst) = 0
    THEN Raises(None)
    ELSE LET is_active == IsSun(lst[1])
             w == IF is_active THEN ActiveBranch(lst) ELSE ScanInactive(lst, 1)
         IN [sun_window_active |-> is_active, next_sun_start |-> w.start,
             next_sun_end |-> w.end, tariff_signal_now |-> lst[1]]

calculate_sun_window(lst) ==
    IF lst = NoneList \/ Len(lst) = 0
    THEN [sun_window_active |-> FALSE, next_sun_start |-> None,
          next_sun_end |-> None, tariff_signal_now |-> None]
    ELSE LET is_active == IsSun(lst[1])
             w == IF is_active THEN ActiveBranch(lst) ELSE ScanInactive(lst, 1)
         IN [sun_window_active |-> is_active, next_sun_start |-> w.start,
             next_sun_end |-> w.end, tariff_signal_now |-> lst[1]]

(***************************************************************************)
(* _schedule_sun_window_update                                             *)
(***************************************************************************)
\* the handle async_track_point_in_time returns: none of the armed ones, so not
\* the one being replaced either
FreshId(ts) == CHOOSE i \in 1..(Cardinality(ts) + 1) : \A t \in ts : t.id # i

\* mutant: the handle is forgotten without the timer being cancelled
CancelPrevious_Forget(ts, unsub) == [timers |-> ts, unsub |-> NoHandle]

\* if self._unsub_scheduled_update: cancel it and forget the handle
CancelPrevious(ts, unsub) ==
    IF unsub # NoHandle
    THEN [timers |-> {t \in ts : t.id # unsub}, unsub |-> NoHandle]
    ELSE [timers |-> ts, unsub |-> unsub]

\* mutant: the comparison with now is missing
Candidate_AnyInstant(d, key, t) ==
    LET s == Get(d, key)
    IN IF s = None THEN <<>>
       ELSE LET p == parse_datetime(s)
            IN IF p # None THEN <<p.dt>> ELSE <<>>

\* the candidate instants of one key: parsed and strictly after now
Candidate(d, key, t) ==
    LET s == Get(d, key)
    IN IF s = None THEN <<>>
       ELSE LET p == parse_datetime(s)
            IN IF p # None /\ p.dt > t THEN <<p.dt>> ELSE <<>>

TargetTimes(d, t) == Candidate(d, "next_sun_start", t) \o Candidate(d, "next_sun_end", t)

\* mutant: the early return for "no target" comes before the cancellation
schedule_ReturnBeforeCancel(d, ts, unsub, t) ==
    LET c == CancelPrevious(ts, unsub)
        target_times == TargetTimes(d, t)
    IN IF target_times = <<>> THEN [timers |-> ts, unsub |-> unsub]
       ELSE LET next_update == SeqMin(target_times) + SAFETY_MARGIN
                h == FreshId(ts)
            IN [timers |-> c.timers \cup {[id |-> h, at |-> next_update]},
                unsub |-> h]

schedule_sun_window_update(d, ts, unsub, t) ==
    LET c == CancelPrevious(ts, unsub)
        target_times == TargetTimes(d, t)
    IN IF target_times = <<>> THEN c
       ELSE LET next_update == SeqMin(target_times) + SAFETY_MARGIN
                h == FreshId(ts)
            IN [timers |-> c.timers \cup {[id |-> h, at |-> next_update]},
                unsub |-> h]

(***************************************************************************)
(* JSON documents and _extract_data_list                                   *)
(***************************************************************************)
\* a decoded JSON document: a list, an object, or anything else (a text, a
\* number, null); Invalid is a body that is no JSON, on which response.json()
\* raises
JList(items) == [kind |-> "list", items |-> items]
JDict(fields) == [kind |-> "dict", fields |-> fields]
JOther == [kind |-> "other"]
Invalid == [kind |-> "invalid"]

\* isinstance(x, list) / isinstance(x, dict); None is neither
Kind(x) == IF "kind" \in DOMAIN x THEN x.kind ELSE "other"

\* a text value, e.g. the unit of a series: the sequence of its characters
Text(s) == [text |-> s]

\* bool(unit) of a text-or-None
TruthyText(u) == u # None /\ Len(u.text) > 0

\* mutant: the descent goes on through a third level of wrapping
extract_data_list_ThirdLevel(json_response) ==
    IF Kind(json_response) = "list"
    THEN [items |-> json_response.items, unit |-> None]
    ELSE IF Kind(json_response) = "dict"
    THEN LET f == json_response.fields
             unit == GetOr(f, "Unit", Get(f, "unit"))
             l1 == GetOr(f, "Data", Get(f, "data"))
         IN IF Kind(l1) = "list" THEN [items |-> l1.items, unit |-> unit]
            ELSE IF Kind(l1) = "dict"
            THEN LET g == l1.fields
                     unit2 == IF ~TruthyText(unit)
                              THEN GetOr(g, "Unit", Get(g, "unit")) ELSE unit
                     l2 == GetOr(g, "Data", Get(g, "data"))
                     l3 == IF Kind(l2) = "dict"
                           THEN GetOr(l2.fields, "Data", Get(l2.fields, "data"))
                           ELSE l2
                 IN [items |-> IF Kind(l3) = "list" THEN l3.items ELSE <<>>,
                     unit |-> unit2]
            ELSE [items |-> <<>>, unit |-> unit]
    ELSE [items |-> <<>>, unit |-> None]

\* (items, unit) of a decoded document
extract_data_list(json_response) ==
    IF Kind(json_response) = "list"
    THEN [items |-> json_response.items, unit |-> None]
    ELSE IF Kind(json_response) = "dict"
    THEN LET f == json_response.fields
             unit == GetOr(f, "Unit", Get(f, "unit"))
             l1 == GetOr(f, "Data", Get(f, "data"))
         IN IF Kind(l1) = "list" THEN [items |-> l1.items, unit |-> unit]
            ELSE IF Kind(l1) = "dict"
            THEN LET g == l1.fields
                     unit2 == IF ~TruthyText(unit)
                              THEN GetOr(g, "Unit", Get(g, "unit")) ELSE unit
                     l2 == GetOr(g, "Data", Get(g, "data"))
                 IN [items |-> IF Kind(l2) = "list" THEN l2.items ELSE <<>>,
                     unit |-> unit2]
            ELSE [items |-> <<>>, unit |-> unit]
    ELSE [items |-> <<>>, unit |-> None]

(***************************************************************************)
(* _normalize_data                                                         *)
(*                                                                         *)
(* An item of a data list is a dict, None, or a JSON scalar: Number (a     *)
(* non-zero number) or Chars (a non-empty text).  Where the unit matters a *)
(* value of a dict is Num(n) (the number n/1), Chars or None; the division *)
(* by 100.0 keeps the numerator and multiplies the denominator.  Digits(n)  *)
(* is the text that spells the number n, Huge an integer beyond the range  *)
(* of a float.                                                             *)
(***************************************************************************)
Number == [number |-> 5]
Chars == [chars |-> "abc"]
Num(n) == [num |-> n, den |-> 1]
Digits(n) == [digits |-> n]
Huge == [huge |-> TRUE]

UpperCase ==
    <<"A", "B", "C", "D", "E", "F", "G", "H", "I", "J", "K", "L", "M",
      "N", "O", "P", "Q", "R", "S", "T", "U", "V", "W", "X", "Y", "Z">>
LowerCase ==
    <<"a", "b", "c", "d", "e", "f", "g", "h", "i", "j", "k", "l", "m",
      "n", "o", "p", "q", "r", "s", "t", "u", "v", "w", "x", "y", "z">>

\* str.lower, character by character
Lower(s) ==
    [i \in 1..Len(s) |->
        IF \E k \in 1..Len(UpperCase) : UpperCase[k] = s[i]
        THEN LowerCase[CHOOSE k \in 1..Len(UpperCase) : UpperCase[k] = s[i]]
        ELSE s[i]]

\* sub in s
Contains(s, sub) ==
    \E i \in 0..(Len(s) - Len(sub)) : SubSeq(s, i + 1, i + Len(sub)) = sub

\* "cent" in unit.lower()
ContainsCent(s) == Contains(Lower(s), <<"c", "e", "n", "t">>)

\* the units of the series, and texts that are none the API is known to send
CentPerKWh == <<"C", "e", "n", "t", "/", "k", "W", "h">>
EurPerKWh == <<"E", "U", "R", "/", "k", "W", "h">>

\* float(x): the number a number or the text of a number stands for; raises
\* ValueError for another text, TypeError for a value that is neither, and
\* OverflowError for an integer beyond the range of a float
Float(x) ==
    IF "num" \in DOMAIN x THEN Returns(x)
    ELSE IF "digits" \in DOMAIN x THEN Returns(Num(x.digits))
    ELSE IF "huge" \in DOMAIN x THEN Raises("OverflowError")
    ELSE IF "chars" \in DOMAIN x THEN Raises("ValueError")
    ELSE Raises("TypeError")

\* if key in item: item[canonical] = item[key]
CopyKey(item, key, canonical) ==
    IF key \in DOMAIN item THEN Put(item, canonical, item[key]) ELSE item

\* the unit conversion: item["v"] = float(item["v"]) / 100.0, skipped when
\* float raises ValueError or TypeError; another exception leaves the method
ConvertCent(item) ==
    LET f == Float(item.v)
    IN IF ~f.raised
       THEN Returns(Put(item, "v", [num |-> f.value.num, den |-> f.value.den * 100]))
       ELSE IF f.value \in {"ValueError", "TypeError"} THEN Returns(item)
       ELSE Raises(None)

normalize_data(item, unit) ==
    IF ~Truthy(item) THEN Returns(item)
    \* `"Value" in 5` raises TypeError
    ELSE IF "number" \in DOMAIN item THEN Raises(None)
    \* `"Value" in "abc"` is False; "abc".get raises AttributeError
    ELSE IF "chars" \in DOMAIN item
    THEN IF TruthyText(unit) /\ ContainsCent(unit.text) THEN Raises(None)
         ELSE Returns(item)
    ELSE LET i1 == CopyKey(item, "Value", "v")
             i2 == CopyKey(i1, "Flag", "f")
             i3 == CopyKey(i2, "From", "t")
         IN IF TruthyText(unit) /\ ContainsCent(unit.text)
               /\ "v" \in DOMAIN i3 /\ i3.v # None
            THEN ConvertCent(i3)
            ELSE Returns(i3)

\* [self._normalize_data(i, unit) for i in items]: raises when one call does
NormalizeAll(items, unit) ==
    LET calls == [i \in 1..Len(items) |-> normalize_data(items[i], unit)]
    IN IF \E i \in 1..Len(items) : calls[i].raised THEN Raises(None)
       ELSE Returns([i \in 1..Len(items) |-> calls[i].value])

(***************************************************************************)
(* _discover_timeseries_names                                              *)
(***************************************************************************)
LogicalKeys == {"tariff-signal", "innonet-tariff", "energy-base", "energy-fee", "energy-vat"}

\* which of the searched substrings the lower-cased name contains
Needles(name) ==
    CASE name = "tariff-signal-Z" -> {"tariff-signal"}
      [] name = "innonet-tariff-Z" -> {"innonet-tariff"}
      [] name = "innonet-tariff-Y" -> {"innonet-tariff"}
      [] name = "public-energy-tariff-Z" -> {"public-energy-tariff"}
      [] name = "public-energy-tariff-Z-Fee" -> {"public-energy-tariff", "fee"}
      [] name = "public-energy-tariff-Z-Vat" -> {"public-energy-tariff", "vat"}
      [] OTHER -> {}

ClassifyName(m, name) ==
    LET n == Needles(name)
        m1 == IF "tariff-signal" \in n THEN Put(m, "tariff-signal", name) ELSE m
        m2 == IF "innonet-tariff" \in n THEN Put(m1, "innonet-tariff", name) ELSE m1
    IN IF "public-energy-tariff" \in n
       THEN IF "fee" \in n THEN Put(m2, "energy-fee", name)
            ELSE IF "vat" \in n THEN Put(m2, "energy-vat", name)
            ELSE Put(m2, "energy-base", name)
       ELSE m2

RECURSIVE ClassifyAll(_, _)
ClassifyAll(m, items) ==
    IF items = <<>> THEN m
    ELSE ClassifyAll(ClassifyName(m, Head(items)), Tail(items))

\* an HTTP exchange: a transport exception (session.get raises), or a status
\* with the body response.json() decodes
Exception == [exc |-> TRUE]
Http(status, json) == [status |-> status, json |-> json]
Ok(resp) == "status" \in DOMAIN resp /\ resp.status = 200
Failed(resp) == ~Ok(resp)

\* the try block of _discover_timeseries_names; an item of the collection is
\* held as the text its "Name" gives
discover_try(m, resp) ==
    IF resp = Exception THEN Raises(m)
    ELSE IF resp.status # 200 THEN Returns(m)
    ELSE IF Kind(resp.json) = "invalid" THEN Raises(m)
    ELSE Returns(ClassifyAll(m, extract_data_list(resp.json).items))

\* mutant: a failed request empties the map
discover_ClearOnFailure(m, resp) ==
    IF Failed(resp) THEN Returns(EmptyDict) ELSE Returns(discover_try(m, resp).value)

\* try: ... except Exception: pass; value: the map the call leaves
discover_timeseries_names(m, resp) == Returns(discover_try(m, resp).value)

FailureResponses == {Exception, Http(503, Invalid)}

AllNames ==
    <<"tariff-signal-Z", "innonet-tariff-Z", "public-energy-tariff-Z",
      "public-energy-tariff-Z-Fee", "public-energy-tariff-Z-Vat">>

DiscoveryResponses ==
    FailureResponses \cup {Http(200, JList(names)) : names \in env.names}

(***************************************************************************)
(* _fetch_timeseries_moment and _fetch_forecast                            *)
(***************************************************************************)
\* the try block of _fetch_timeseries_moment
moment_try(resp) ==
    IF resp = Exception THEN Raises(None)
    ELSE IF resp.status # 200 THEN Returns(None)
    ELSE IF Kind(resp.json) = "invalid" THEN Raises(None)
    ELSE LET e == extract_data_list(resp.json)
         IN IF Len(e.items) > 0 THEN normalize_data(e.items[1], e.unit)
            ELSE Returns(None)

\* try: ... except Exception: pass; return None
fetch_timeseries_moment(resp) ==
    LET r == moment_try(resp) IN IF r.raised THEN Returns(None) ELSE r

\* the try block of _fetch_forecast
forecast_try(resp) ==
    IF resp = Exception THEN Raises(None)
    ELSE IF resp.status # 200 THEN Returns(<<>>)
    ELSE IF Kind(resp.json) = "invalid" THEN Raises(None)
    ELSE LET e == extract_data_list(resp.json)
         IN IF Len(e.items) > 0 THEN NormalizeAll(e.items, e.unit)
            ELSE Returns(<<>>)

\* try: ... except Exception: pass; return []
fetch_forecast(resp) ==
    LET r == forecast_try(resp) IN IF r.raised THEN Returns(<<>>) ELSE r

MomentResponses(series) ==
    FailureResponses \cup {Http(200, JList(<<>>))} \cup
    {Http(200, JList(<<[v |-> x]>>)) : x \in env.prices[series]}

\* the 15-minute boundary at or before t ("now[15m")
SlotOf(t) == (t \div Slot) * Slot

SeqsUpTo(S, n) == UNION {[1..k -> S] : k \in 0..n}

\* the timestamps of a forecast: slots from the current one on ("fresh"),
\* from the previous one ("stale"), or texts that are no datetime
Stamp(mode, t, i) ==
    IF mode = "garbage" THEN Garbage
    ELSE IF mode = "stale" THEN Iso(SlotOf(t) + (i - 2) * Slot)
    ELSE Iso(SlotOf(t) + (i - 1) * Slot)

Forecast(vals, mode, t) ==
    [i \in 1..Len(vals) |-> [v |-> vals[i], t |-> Stamp(mode, t, i)]]

ForecastResponses(t) ==
    FailureResponses \cup
    {Http(200, JList(Forecast(vals, mode, t))) :
        vals \in SeqsUpTo(env.signals, MaxForecast), mode \in env.stamps}

\* the answers the refresh cycles of Spec draw from: the grid price may be
\* zero or not, the energy components are not delivered
MainEnv ==
    [names |-> {<<>>, AllNames},
     prices |-> [k \in LogicalKeys |-> IF k = "innonet-tariff" THEN {0, 5} ELSE {}],
     signals |-> {0, SUN_WINDOW_VALUE},
     stamps |-> {"fresh", "stale", "garbage"}]

(***************************************************************************)
(* _async_update_data                                                      *)
(***************************************************************************)
\* the four moment fetches, in program order: pc, logical series, data key
MomentSteps ==
    <<[pc |-> "grid", series |-> "innonet-tariff", key |-> "grid_price"],
      [pc |-> "base", series |-> "energy-base", key |-> "energy_base"],
      [pc |-> "fee", series |-> "energy-fee", key |-> "energy_fee"],
      [pc |-> "vat", series |-> "energy-vat", key |-> "energy_vat"]>>

\* where the cycle goes when it reaches _fetch_forecast("tariff-signal")
ForecastEntry(m) == IF "tariff-signal" \notin DOMAIN m THEN "fc_discover" ELSE "forecast"

AfterMoment(i, m) ==
    IF i < Len(MomentSteps) THEN MomentSteps[i + 1].pc ELSE ForecastEntry(m)

\* history: the first item of the data list a 200 answer carries, under the
\* snapshot key of its series
Record(h, key, resp) ==
    IF Ok(resp) /\ Kind(resp.json) = "list" /\ Len(resp.json.items) > 0
    THEN Put(h, key, resp.json.items[1])
    ELSE h

\* mutant: a series without data discards what the earlier series delivered
StoreIfTruthy_DropOthers(d, key, item) ==
    IF Truthy(item) THEN Put(d, key, item) ELSE EmptyDict

\* if grid_data: data["grid_price"] = grid_data
StoreIfTruthy(d, key, item) == IF Truthy(item) THEN Put(d, key, item) ELSE d

\* mutant: the except clause re-raises whatever the coordinator holds
HandleError_Reraise(prev) == [outcome |-> "failed", data |-> prev]

\* mutant: with no previous snapshot the except clause returns an empty dict
HandleError_ReturnEmpty(prev) ==
    IF Truthy(prev)
    THEN [outcome |-> "fallback", data |-> prev]
    ELSE [outcome |-> "success", data |-> EmptyDict]

\* the except clause: keep the previous snapshot if there is one
HandleError(prev) ==
    IF Truthy(prev)
    THEN [outcome |-> "fallback", data |-> prev]
    ELSE [outcome |-> "failed", data |-> prev]

\* steps 5.. of the body: analyse, merge, check, schedule, return
FinishBody(d, fc, prev, ts, unsub, t) ==
    LET window_info == calculate_sun_window(fc)
        merged == window_info @@ d
    IN IF ~Truthy(merged)
       THEN [raised |-> TRUE, timers |-> ts, unsub |-> unsub] @@ HandleError(prev)
       ELSE LET s == schedule_sun_window_update(merged, ts, unsub, t)
            IN [raised |-> FALSE, outcome |-> "success", data |-> merged,
                timers |-> s.timers, unsub |-> s.unsub]

TypeOK ==
    /\ pc \in {"idle", "discover", "grid", "base", "fee", "vat", "fc_discover", "forecast"}
    /\ outcome \in {"none", "running", "success", "fallback", "failed"}
    /\ raised \in BOOLEAN
    /\ all_failed \in BOOLEAN
    /\ refresh_requested \in BOOLEAN
    /\ now \in Nat
    /\ unsub_scheduled_update \in Nat
    /\ DOMAIN resolved_names \subseteq LogicalKeys

\* the coordinator after __init__, before its first refresh
Constructed ==
    /\ data = None
    /\ resolved_names = EmptyDict
    /\ unsub_scheduled_update = NoHandle
    /\ timers = {}
    /\ now = 0
    /\ pc = "idle"
    /\ cyc = EmptyDict
    /\ all_failed = FALSE
    /\ refresh_requested = FALSE
    /\ outcome = "none"
    /\ raised = FALSE
    /\ got = EmptyDict
    /\ discovered = FALSE
    /\ fired = FALSE
    /\ loaded = TRUE

\* no function is applied on its own
NoCall == args = None /\ returned = NotCalled

Init ==
    /\ Constructed
    /\ env = MainEnv
    /\ forecast_list = <<>>
    /\ result = None
    /\ NoCall

\* what no step of the coordinator changes
Apart == <<env, forecast_list, result, args, returned, loaded>>

\* the fixed-interval poll of the coordinator asks for a refresh (it runs
\* while the entities of the entry listen to the coordinator)
IntervalPoll ==
    /\ loaded
    /\ ~refresh_requested
    /\ refresh_requested' = TRUE
    /\ UNCHANGED <<data, resolved_names, unsub_scheduled_update, timers, now, pc,
                   cyc, all_failed, outcome, raised, got, discovered, fired, Apart>>

\* InnoNetUpdateButton.async_press
async_press ==
    /\ loaded
    /\ refresh_requested' = TRUE
    /\ UNCHANGED <<data, resolved_names, unsub_scheduled_update, timers, now, pc,
                   cyc, all_failed, outcome, raised, got, discovered, fired, Apart>>

\* mutant: the callback forgets the handle and requests nothing
handle_NoRefresh(t) ==
    /\ t \in timers
    /\ now >= t.at
    /\ timers' = timers \ {t}
    /\ unsub_scheduled_update' = NoHandle
    /\ fired' = TRUE
    /\ UNCHANGED <<data, resolved_names, now, pc, cyc, all_failed,
                   refresh_requested, outcome, raised, got, discovered, Apart>>

\* the armed timer t is due: the event loop removes it and runs the callback,
\* which forgets the handle and asks for a refresh (one step of the event loop)
handle_scheduled_update(t) ==
    /\ t \in timers
    /\ now >= t.at
    /\ timers' = timers \ {t}
    /\ unsub_scheduled_update' = NoHandle
    /\ refresh_requested' = TRUE
    /\ fired' = TRUE
    /\ UNCHANGED <<data, resolved_names, now, pc, cyc, all_failed, outcome,
                   raised, got, discovered, Apart>>

\* time passes: to the next slot boundary or to the instant of an armed timer
Tick ==
    /\ \E t \in {SlotOf(now) + Slot} \cup {x.at : x \in timers} :
          /\ t > now
          /\ t <= MaxSlots * Slot + SAFETY_MARGIN
          /\ now' = t
    /\ UNCHANGED <<data, resolved_names, unsub_scheduled_update, timers, pc, cyc,
                   all_failed, refresh_requested, outcome, raised, got,
                   discovered, fired, Apart>>

\* a requested refresh starts: data = {} and entry of the try block.  The
\* coordinator itself holds no lock: that a cycle starts only when none runs is
\* the rule of the inherited DataUpdateCoordinator, taken here as given
StartCycle ==
    /\ pc = "idle"
    /\ refresh_requested
    /\ refresh_requested' = FALSE
    /\ cyc' = EmptyDict
    /\ all_failed' = TRUE
    /\ outcome' = "running"
    /\ raised' = FALSE
    /\ got' = EmptyDict
    /\ discovered' = FALSE
    /\ fired' = FALSE
    /\ pc' = IF ~Truthy(resolved_names) THEN "discover" ELSE MomentSteps[1].pc
    /\ UNCHANGED <<data, resolved_names, unsub_scheduled_update, timers, now,
                   Apart>>

\* step 1: await self._discover_timeseries_names()
Discover ==
    /\ pc = "discover"
    /\ \E resp \in DiscoveryResponses :
          /\ resolved_names' = discover_timeseries_names(resolved_names, resp).value
          /\ all_failed' = (all_failed /\ Failed(resp))
    /\ discovered' = TRUE
    /\ pc' = MomentSteps[1].pc
    /\ UNCHANGED <<data, unsub_scheduled_update, timers, now, cyc,
                   refresh_requested, outcome, raised, got, fired, Apart>>

\* steps 2 and 3: one await self._fetch_timeseries_moment(...) and its store
FetchMoment ==
    \E i \in 1..Len(MomentSteps) :
       /\ pc = MomentSteps[i].pc
       /\ \E resp \in MomentResponses(MomentSteps[i].series) :
             /\ cyc' = StoreIfTruthy(cyc, MomentSteps[i].key,
                                     fetch_timeseries_moment(resp).value)
             /\ got' = Record(got, MomentSteps[i].key, resp)
             /\ all_failed' = (all_failed /\ Failed(resp))
       /\ pc' = AfterMoment(i, resolved_names)
       /\ UNCHANGED <<data, resolved_names, unsub_scheduled_update, timers, now,
                      refresh_requested, outcome, raised, discovered, fired, Apart>>

\* _fetch_forecast: the key is unresolved, so discovery is awaited first
ForecastDiscover ==
    /\ pc = "fc_discover"
    /\ \E resp \in DiscoveryResponses :
          /\ resolved_names' = discover_timeseries_names(resolved_names, resp).value
          /\ all_failed' = (all_failed /\ Failed(resp))
    /\ discovered' = TRUE
    /\ pc' = "forecast"
    /\ UNCHANGED <<data, unsub_scheduled_update, timers, now, cyc,
                   refresh_requested, outcome, raised, got, fired, Apart>>

\* step 4 to the return: the forecast request, then the rest of the body, which
\* has no await; the caller installs what the method returns
\* (fc: what _fetch_forecast returned, r: how the body ended)
FetchForecast ==
    /\ pc = "forecast"
    /\ \E resp \in ForecastResponses(now) :
       \E fc \in {fetch_forecast(resp).value} :
       \E r \in {FinishBody(cyc, fc, data, timers, unsub_scheduled_update, now)} :
             /\ data' = r.data
             /\ got' = Record(got, "tariff_signal_now", resp)
             /\ outcome' = r.outcome
             /\ raised' = r.raised
             /\ timers' = r.timers
             /\ unsub_scheduled_update' = r.unsub
             /\ all_failed' = (all_failed /\ Failed(resp))
    /\ discovered' = FALSE
    /\ pc' = "idle"
    /\ cyc' = EmptyDict
    /\ UNCHANGED <<resolved_names, now, refresh_requested, fired, Apart>>

\* mutant: the except clause returns what the cycle has gathered so far
Timeout_ExposePartial ==
    /\ pc # "idle"
    /\ data' = cyc
    /\ outcome' = "fallback"
    /\ raised' = TRUE
    /\ got' = EmptyDict
    /\ discovered' = FALSE
    /\ pc' = "idle"
    /\ cyc' = EmptyDict
    /\ UNCHANGED <<resolved_names, unsub_scheduled_update, timers, now,
                   all_failed, refresh_requested, fired, Apart>>

\* mutant: the except clause cancels the armed timer
Timeout_CancelTimer ==
    /\ pc # "idle"
    /\ LET r == HandleError(data)
       IN /\ data' = r.data
          /\ outcome' = r.outcome
    /\ raised' = TRUE
    /\ got' = EmptyDict
    /\ discovered' = FALSE
    /\ pc' = "idle"
    /\ cyc' = EmptyDict
    /\ timers' = {t \in timers : t.id # unsub_scheduled_update}
    /\ unsub_scheduled_update' = NoHandle
    /\ UNCHANGED <<resolved_names, now, all_failed, refresh_requested, fired, Apart>>

\* the 45 s timeout expires while the body awaits a request
Timeout ==
    /\ pc # "idle"
    /\ LET r == HandleError(data)
       IN /\ data' = r.data
          /\ outcome' = r.outcome
    /\ raised' = TRUE
    /\ got' = EmptyDict
    /\ discovered' = FALSE
    /\ pc' = "idle"
    /\ cyc' = EmptyDict
    /\ UNCHANGED <<resolved_names, unsub_scheduled_update, timers, now,
                   all_failed, refresh_requested, fired, Apart>>

\* async_unload_entry: the platforms are unloaded, so that no entity listens
\* to the coordinator any more, and the coordinator is taken out of hass.data.
\* The coordinator defines no async_close, and nothing here reaches the handle
\* self._unsub_scheduled_update: the armed timer stays as it is
async_unload_entry ==
    /\ loaded
    /\ loaded' = FALSE
    /\ UNCHANGED <<data, resolved_names, unsub_scheduled_update, timers, now, pc,
                   cyc, all_failed, refresh_requested, outcome, raised, got,
                   discovered, fired, env, forecast_list, result, args, returned>>

Next ==
    \/ IntervalPoll
    \/ async_press
    \/ \E t \in timers : handle_scheduled_update(t)
    \/ Tick
    \/ StartCycle
    \/ Discover
    \/ FetchMoment
    \/ ForecastDiscover
    \/ FetchForecast
    \/ Timeout

Spec == Init /\ [][Next]_vars

(***************************************************************************)
(* The refresh cycle with several live series: every name is resolved by a *)
(* successful discovery, the grid price and the energy fee are delivered.  *)
(***************************************************************************)
SeriesEnv ==
    [names |-> {AllNames},
     prices |-> [k \in LogicalKeys |->
                   IF k = "innonet-tariff" THEN {5}
                   ELSE IF k = "energy-fee" THEN {7} ELSE {}],
     signals |-> {0, SUN_WINDOW_VALUE},
     stamps |-> {"fresh"}]

InitSeries ==
    /\ Constructed
    /\ env = SeriesEnv
    /\ forecast_list = <<>>
    /\ result = None
    /\ NoCall

SpecSeries == InitSeries /\ [][Next]_vars

(***************************************************************************)
(* The refresh cycle with a discovery that lists one series at a time, and *)
(* two different series whose names match "innonet-tariff".                *)
(***************************************************************************)
NamesEnv ==
    [names |-> {<<"innonet-tariff-Z">>, <<"innonet-tariff-Y">>, <<"tariff-signal-Z">>},
     prices |-> [k \in LogicalKeys |-> {}],
     signals |-> {0, SUN_WINDOW_VALUE},
     stamps |-> {"fresh"}]

InitNames ==
    /\ Constructed
    /\ env = NamesEnv
    /\ forecast_list = <<>>
    /\ result = None
    /\ NoCall

SpecNames == InitNames /\ [][Next]_vars

(***************************************************************************)
(* The refresh cycle and the precise timer: every name is resolved, no     *)
(* price is delivered, the forecast has timestamps from the current slot   *)
(* on.  In SpecLive the event loop is fair: a refresh that was requested   *)
(* starts once no cycle runs, and a cycle that runs takes its next step    *)
(* (each await ends with an answer, or with the 45 s timeout).  In         *)
(* SpecUnload the config entry may be unloaded at any moment.              *)
(***************************************************************************)
TimerEnv ==
    [names |-> {AllNames},
     prices |-> [k \in LogicalKeys |-> {}],
     signals |-> {0, SUN_WINDOW_VALUE},
     stamps |-> {"fresh"}]

InitTimer ==
    /\ Constructed
    /\ env = TimerEnv
    /\ forecast_list = <<>>
    /\ result = None
    /\ NoCall

CycleStep == Discover \/ FetchMoment \/ ForecastDiscover \/ FetchForecast \/ Timeout

SpecLive ==
    InitTimer /\ [][Next]_vars /\ WF_vars(StartCycle) /\ WF_vars(CycleStep)

NextUnload == Next \/ async_unload_entry

SpecUnload == InitTimer /\ [][NextUnload]_vars

(***************************************************************************)
(* The Window Analyzer on its own: _calculate_sun_window applied to every  *)
(* forecast of at most MaxLen points.                                      *)
(***************************************************************************)
AnalyzerValues == {0, SUN_WINDOW_VALUE, 2}

AnalyzerInputs ==
    {[i \in 1..Len(vals) |-> [v |-> vals[i], t |-> Iso((i - 1) * Slot)]] :
        vals \in SeqsUpTo(AnalyzerValues, MaxLen)}

InitAnalyzer ==
    /\ Constructed
    /\ env = MainEnv
    /\ forecast_list \in AnalyzerInputs \cup {NoneList}
    /\ result = None
    /\ NoCall

Analyze ==
    /\ result = None
    /\ result' = calculate_sun_window(forecast_list)
    /\ UNCHANGED <<data, resolved_names, unsub_scheduled_update, timers, now, pc,
                   cyc, all_failed, refresh_requested, outcome, raised, env,
                   forecast_list, got, discovered, fired, loaded, args, returned>>

NextAnalyzer == Analyze

SpecAnalyzer == InitAnalyzer /\ [][NextAnalyzer]_vars

(***************************************************************************)
(* The two fetchers on their own: _fetch_timeseries_moment and             *)
(* _fetch_forecast applied to every answer of the server with a data list  *)
(* of at most MaxItems items.                                              *)
(***************************************************************************)
\* what a data list may hold: objects with the canonical or the variant value
\* key, null, a number, a text
FetchItems == {[v |-> Num(500)], [Value |-> Num(500)], None, Number, Chars}

FetchLists == {JList(l) : l \in SeqsUpTo(FetchItems, MaxItems)}

\* the documents a 200 answer may carry: a bare list, the list under "Data" or
\* "data", nested one level deeper with a unit, an object without data, a
\* scalar, or no JSON at all
FetchDocuments ==
    FetchLists
    \cup {JDict([Data |-> l]) : l \in FetchLists}
    \cup {JDict([data |-> l]) : l \in FetchLists}
    \cup {JDict([Unit |-> Text(CentPerKWh), Data |-> JDict([Data |-> l])]) :
             l \in FetchLists}
    \cup {JDict(EmptyDict), JDict([Data |-> JOther]), JOther, Invalid}

FetchResponses ==
    {Exception} \cup {Http(st, doc) : st \in {200, 404, 503}, doc \in FetchDocuments}

InitFetch ==
    /\ Constructed
    /\ env = MainEnv
    /\ forecast_list = <<>>
    /\ result = None
    /\ args \in {[response |-> r] : r \in FetchResponses}
    /\ returned = NotCalled

\* the outcome of a call, with the function that was called
Called(fn, out) == [fn |-> fn, raised |-> out.raised, value |-> out.value]

CallMoment ==
    /\ returned = NotCalled
    /\ returned' = Called("fetch_timeseries_moment",
                          fetch_timeseries_moment(args.response))
    /\ UNCHANGED <<data, resolved_names, unsub_scheduled_update, timers, now, pc,
                   cyc, all_failed, refresh_requested, outcome, raised, env,
                   forecast_list, result, got, discovered, fired, loaded, args>>

CallForecast ==
    /\ returned = NotCalled
    /\ returned' = Called("fetch_forecast", fetch_forecast(args.response))
    /\ UNCHANGED <<data, resolved_names, unsub_scheduled_update, timers, now, pc,
                   cyc, all_failed, refresh_requested, outcome, raised, env,
                   forecast_list, result, got, discovered, fired, loaded, args>>

NextFetch == CallMoment \/ CallForecast

SpecFetch == InitFetch /\ [][NextFetch]_vars

(***************************************************************************)
(* The name discovery on its own: _discover_timeseries_names applied to a  *)
(* map and to every answer that lists at most MaxItems series.             *)
(***************************************************************************)
DiscoveryMaps ==
    {EmptyDict, "innonet-tariff" :> "innonet-tariff-Z", ClassifyAll(EmptyDict, AllNames)}

DiscoveryNames ==
    {AllNames[i] : i \in 1..Len(AllNames)} \cup {"innonet-tariff-Y", "other-series"}

DiscoveryLists == {JList(l) : l \in SeqsUpTo(DiscoveryNames, MaxItems)}

DiscoveryDocuments ==
    DiscoveryLists
    \cup {JDict([Data |-> l]) : l \in DiscoveryLists}
    \cup {JDict(EmptyDict), JOther, Invalid}

InitDiscovery ==
    /\ Constructed
    /\ env = MainEnv
    /\ forecast_list = <<>>
    /\ result = None
    /\ args \in {[names |-> m, response |-> r] :
                   m \in DiscoveryMaps,
                   r \in {Exception} \cup {Http(st, doc) : st \in {200, 503},
                                                          doc \in DiscoveryDocuments}}
    /\ returned = NotCalled

CallDiscover ==
    /\ returned = NotCalled
    /\ returned' = Called("discover_timeseries_names",
                          discover_timeseries_names(args.names, args.response))
    /\ UNCHANGED <<data, resolved_names, unsub_scheduled_update, timers, now, pc,
                   cyc, all_failed, refresh_requested, outcome, raised, env,
                   forecast_list, result, got, discovered, fired, loaded, args>>

NextDiscovery == CallDiscover

SpecDiscovery == InitDiscovery /\ [][NextDiscovery]_vars

(***************************************************************************)
(* The Response Normalizer on its own: _extract_data_list applied to bare  *)
(* lists of at most MaxItems items, to the same lists wrapped in one, two  *)
(* and three objects under "Data" or "data", with and without units at the *)
(* two outer levels, and to documents of other shapes.                     *)
(***************************************************************************)
ExtractLists == {JList(l) : l \in SeqsUpTo({[v |-> Num(5)], None}, MaxItems)}

DataKeys == {"Data", "data"}

\* what an object may say about the unit: nothing, a unit under either key,
\* an empty text, or null under "Unit" beside a unit under "unit"
UnitFields ==
    {EmptyDict, [Unit |-> Text(EurPerKWh)], [unit |-> Text(CentPerKWh)],
     [Unit |-> Text(<<>>)], [Unit |-> None, unit |-> Text(EurPerKWh)]}

\* the object {key: inner} with the unit fields u
Wrap(key, inner, u) == JDict((key :> inner) @@ u)

ExtractDocuments ==
    ExtractLists
    \cup {Wrap(k, l, u) : k \in DataKeys, l \in ExtractLists, u \in UnitFields}
    \cup {Wrap(k1, Wrap(k2, l, u2), u1) :
             k1 \in DataKeys, k2 \in DataKeys, l \in ExtractLists,
             u1 \in UnitFields, u2 \in UnitFields}
    \cup {Wrap(k1, Wrap(k2, Wrap(k3, l, EmptyDict), EmptyDict), EmptyDict) :
             k1 \in DataKeys, k2 \in DataKeys, k3 \in DataKeys, l \in ExtractLists}
    \cup {JOther, None, JDict(EmptyDict), JDict([Data |-> JOther]),
          JDict([Unit |-> Text(CentPerKWh)]),
          JDict([Data |-> None, data |-> JList(<<[v |-> Num(5)]>>)]),
          JDict([Data |-> JDict([Data |-> JOther, Unit |-> Text(CentPerKWh)])])}

InitExtract ==
    /\ Constructed
    /\ env = MainEnv
    /\ forecast_list = <<>>
    /\ result = None
    /\ args \in {[json_response |-> d] : d \in ExtractDocuments}
    /\ returned = NotCalled

CallExtract ==
    /\ returned = NotCalled
    /\ returned' = Called("extract_data_list",
                          Returns(extract_data_list(args.json_response)))
    /\ UNCHANGED <<data, resolved_names, unsub_scheduled_update, timers, now, pc,
                   cyc, all_failed, refresh_requested, outcome, raised, env,
                   forecast_list, result, got, discovered, fired, loaded, args>>

NextExtract == CallExtract

SpecExtract == InitExtract /\ [][NextExtract]_vars

(***************************************************************************)
(* The normalizer on its own: _normalize_data applied to every item over   *)
(* the canonical keys v, f, t and the variant keys Value, Flag, From, and  *)
(* to the items that are no objects, with every kind of unit.              *)
(***************************************************************************)
NormalizeKeys == {"v", "Value", "f", "Flag", "t", "From"}

\* the values the keys may carry: a key and its variant never agree
NormalizeValues ==
    [v : {Num(5), None}, Value : {Num(700), Chars, None}, f : {1}, Flag : {2},
     t : {Iso(0)}, From : {Iso(Slot)}]

NormalizeItems ==
    {[k \in K |-> r[k]] : K \in SUBSET NormalizeKeys, r \in NormalizeValues}
    \cup {None, Number, Chars}

NormalizeUnits == {None, Text(<<>>), Text(EurPerKWh), Text(CentPerKWh)}

InitNormalize ==
    /\ Constructed
    /\ env = MainEnv
    /\ forecast_list = <<>>
    /\ result = None
    /\ args \in {[item |-> i, unit |-> u] : i \in NormalizeItems, u \in NormalizeUnits}
    /\ returned = NotCalled

CallNormalize ==
    /\ returned = NotCalled
    /\ returned' = Called("normalize_data", normalize_data(args.item, args.unit))
    /\ UNCHANGED <<data, resolved_names, unsub_scheduled_update, timers, now, pc,
                   cyc, all_failed, refresh_requested, outcome, raised, env,
                   forecast_list, result, got, discovered, fired, loaded, args>>

NextNormalize == CallNormalize

SpecNormalize == InitNormalize /\ [][NextNormalize]_vars

(***************************************************************************)
(* The unit conversion on its own: _normalize_data applied to the items    *)
(* over the value keys v and Value, with every kind of value and with      *)
(* units that contain "cent" in several letter cases or do not.            *)
(***************************************************************************)
ConvertValues == {Num(5), Num(0), Digits(5), Chars, None, Huge}

ConvertItems ==
    {[k \in K |-> r[k]] : K \in SUBSET {"v", "Value"},
                          r \in [v : ConvertValues, Value : ConvertValues]}

ConvertUnits ==
    {None, Text(<<>>), Text(EurPerKWh), Text(CentPerKWh),
     Text(<<"c", "e", "n", "t">>), Text(<<"C", "E", "N", "T">>),
     Text(<<"E", "u", "r", "o", "c", "E", "n", "T">>),
     Text(<<"c", "t", "/", "k", "W", "h">>), Text(<<"c", "e", "n">>)}

InitConvert ==
    /\ Constructed
    /\ env = MainEnv
    /\ forecast_list = <<>>
    /\ result = None
    /\ args \in {[item |-> i, unit |-> u] : i \in ConvertItems, u \in ConvertUnits}
    /\ returned = NotCalled

SpecConvert == InitConvert /\ [][NextNormalize]_vars

(***************************************************************************)
(* Properties of the refresh cycle.                                        *)
(***************************************************************************)
\* a step that ends a refresh cycle
CycleEnds == pc # "idle" /\ pc' = "idle"

\* a step that ends a refresh cycle by the return of a new snapshot
CycleSucceeds == CycleEnds /\ outcome' = "success"

\* C1: whenever the body of a refresh cycle raises and a previous snapshot
\* exists, the cycle does not propagate the failure and returns the previous
\* snapshot, every field as it was.
C1_FallbackReturnsPrevious ==
    [][(CycleEnds /\ raised' /\ data # None)
         => (outcome' = "fallback" /\ data' = data)]_vars

\* C1 witness: a cycle raised while a snapshot existed and fell back to it
C1_Witness ==
    pc = "idle" /\ raised /\ outcome = "fallback" /\ data # None
    /\ "grid_price" \in DOMAIN data

\* C2 (as claimed): a cycle whose every HTTP request failed keeps the previous
\* snapshot field for field, and with no previous snapshot ends in an update
\* failure instead of producing a snapshot.
C2_TotalFailureFallsBack ==
    [][(CycleEnds /\ all_failed')
         => IF data # None
            THEN data' = data
            ELSE outcome' = "failed" /\ data' = None]_vars

\* C3: when a refresh cycle raises and no snapshot was ever produced, the
\* failure is surfaced as an update failure and no snapshot is installed.
C3_NoSnapshotUpdateFailed ==
    [][(CycleEnds /\ raised' /\ data = None)
         => (outcome' = "failed" /\ data' = None)]_vars

\* C3 witness: a cycle raised with no snapshot and ended in an update failure
C3_Witness ==
    pc = "idle" /\ raised /\ outcome = "failed" /\ data = None

\* the value a snapshot exposes for a numeric series (zero when it has none)
Exposed(d, key) == IF d # None /\ key \in DOMAIN d THEN d[key].v ELSE 0

NumericKeys == {MomentSteps[i].key : i \in 1..Len(MomentSteps)}

\* C4 (as claimed): Stale-Value Guard.  When the freshly fetched value of a
\* series is missing or zero the new snapshot exposes the last accepted
\* non-zero value (what the previous snapshot exposed; zero if none), and
\* otherwise the fresh value.
C4_StaleValueGuard ==
    [][CycleSucceeds
         => \A key \in NumericKeys :
               Exposed(data', key) =
                  IF Exposed(cyc, key) = 0 THEN Exposed(data, key)
                  ELSE Exposed(cyc, key)]_vars

\* C6: at most one precise one-shot timer is armed, in every reachable state.
C6_AtMostOneTimer ==
    /\ Cardinality(timers) <= 1
    /\ \A t \in timers : t.id = unsub_scheduled_update

\* C6 witness: a successful cycle replaced the armed timer: the handle it holds
\* was handed out while another timer was still armed
C6_Witness ==
    /\ pc = "idle" /\ outcome = "success"
    /\ timers = {[id |-> 2, at |-> 2 * Slot + SAFETY_MARGIN]}
    /\ unsub_scheduled_update = 2

\* the instant a window bound of a snapshot names, as a set: empty when the
\* bound is null or is no datetime
Instants(d, key) ==
    IF d[key] # None /\ "iso" \in DOMAIN d[key] THEN {d[key].iso} ELSE {}

\* the window bounds of a snapshot that lie strictly after t
FutureBounds(d, t) ==
    {x \in Instants(d, "next_sun_start") \cup Instants(d, "next_sun_end") : x > t}

Earliest(S) == CHOOSE x \in S : \A y \in S : x <= y

C8_NoFutureBoundNoTimer ==
    [][(CycleSucceeds /\ FutureBounds(data', now) = {})
         => (timers' = {} /\ unsub_scheduled_update' = NoHandle)]_vars

\* C8 witness: both bounds of the new snapshot lie in the past, no timer armed
C8_Witness ==
    /\ pc = "idle" /\ outcome = "success"
    /\ \E x \in Instants(data, "next_sun_start") : x < now
    /\ \E x \in Instants(data, "next_sun_end") : x <= now
    /\ timers = {}
    /\ unsub_scheduled_update = NoHandle

\* C12 (as claimed): a refresh cycle that runs to its end without raising but
\* obtained no usable field (no moment fetch delivered an item, the forecast
\* is empty) installs no snapshot of its own: it keeps the previous snapshot if
\* there is one and otherwise ends in an update failure.
C12_EmptyCycleIsFailure ==
    [][(FetchForecast /\ DOMAIN got' = {})
         => IF data # None
            THEN outcome' = "fallback" /\ data' = data
            ELSE outcome' = "failed" /\ data' = None]_vars

WindowKeys ==
    {"sun_window_active", "next_sun_start", "next_sun_end", "tariff_signal_now"}

\* the snapshot d holds all a cycle produced: the four window fields and every
\* item g says the server delivered
Complete(d, g) ==
    /\ d # None
    /\ WindowKeys \subseteq DOMAIN d
    /\ \A k \in DOMAIN g : k \in DOMAIN d /\ d[k] = g[k]

\* C13: the snapshot readers see changes only in the step that ends a cycle
\* with success, and then to a snapshot that holds all that cycle produced; no
\* other step, during a cycle or ending one that failed midway, changes it.
C13_SnapshotReplacedWhole ==
    [][(data' # data)
         => (CycleEnds /\ outcome' = "success" /\ Complete(data', got'))]_vars

\* C13 witness: midway through a cycle that has fetched the grid price, readers
\* still see the previous snapshot, which has none
C13_Witness ==
    /\ pc = "fee"
    /\ "grid_price" \in DOMAIN cyc
    /\ data # None
    /\ "grid_price" \notin DOMAIN data

MinimumFields ==
    {"grid_price", "tariff_signal_now", "next_sun_start", "next_sun_end"}

\* C25 (as claimed): every snapshot a refresh cycle installs has the current
\* price, the current signal, the next-window start and the next-window end
\* among its fields.
C25_SnapshotMinimumFields ==
    data # None => MinimumFields \subseteq DOMAIN data

\* C26 (as claimed): whenever no refresh cycle runs or is requested and the
\* snapshot has a window start or end strictly after now, a precise one-shot
\* timer is armed.
C26_TimerArmedBeforeBound ==
    (pc = "idle" /\ ~refresh_requested /\ data # None /\ FutureBounds(data, now) # {})
      => timers # {}

\* the steps of a cycle in the order claimed
StepOrder == <<"discover", "grid", "base", "fee", "vat", "forecast">>

\* C27 (as claimed): a cycle starts with the discovery exactly when the name
\* map is empty, and otherwise with the first moment fetch; each step is
\* followed by the next of discovery, the four moment fetches, the forecast
\* fetch (or by the end of the cycle when it raises); a cycle succeeds only
\* from the forecast step, and only the step that ends a cycle with success
\* arms or cancels a timer.
C27_StepOrder ==
    [][/\ (pc' # pc /\ pc' # "idle")
            => \/ /\ pc = "idle"
                  /\ pc' = IF ~Truthy(resolved_names) THEN "discover" ELSE "grid"
               \/ \E i \in 1..(Len(StepOrder) - 1) :
                     pc = StepOrder[i] /\ pc' = StepOrder[i + 1]
       /\ (CycleEnds /\ outcome' = "success") => pc = "forecast"
       /\ (pc' # pc /\ <<timers, unsub_scheduled_update>>' # <<timers, unsub_scheduled_update>>)
            => (pc = "forecast" /\ outcome' = "success")]_vars

\* C29: a cycle that ends in fallback or in an update failure leaves the armed
\* timer and its handle as they were, arms none, and leaves the snapshot as
\* it was.
C29_FailureLeavesTimer ==
    [][(CycleEnds /\ outcome' \in {"fallback", "failed"})
         => /\ timers' = timers
            /\ unsub_scheduled_update' = unsub_scheduled_update
            /\ data' = data]_vars

\* C29 witness: a cycle fell back while a timer was armed, which still is
C29_Witness ==
    /\ pc = "idle" /\ outcome = "fallback" /\ raised
    /\ \E t \in timers : t.id = unsub_scheduled_update /\ t.at > now

\* a step in which an armed timer fires
Fires == \E t \in timers : handle_scheduled_update(t)

\* C24: the step in which the armed timer fires requests a refresh and leaves
\* the snapshot, the name map and the running cycle as they are; and after
\* every firing a refresh cycle starts (fired is cleared by the start of a
\* cycle alone).
C24_TimerRequestsRefresh ==
    /\ [][Fires => /\ refresh_requested'
                   /\ data' = data
                   /\ resolved_names' = resolved_names
                   /\ pc' = pc /\ cyc' = cyc]_vars
    /\ (fired ~> (~fired /\ pc # "idle"))

\* C24 witness: the timer armed for the start of the window has fired, the
\* refresh it requested has not started yet
C24_Witness ==
    /\ fired /\ refresh_requested
    /\ pc = "idle"
    /\ timers = {} /\ unsub_scheduled_update = NoHandle
    /\ \E x \in Instants(data, "next_sun_start") : now = x + SAFETY_MARGIN

\* C28 (as claimed): once the config entry is unloaded no precise timer is
\* armed, and no refresh cycle starts that the precise timer asked for.
C28_UnloadStopsTimers ==
    [][~loaded' => /\ timers' = {}
                   /\ ~(fired /\ pc = "idle" /\ pc' # "idle")]_vars

(***************************************************************************)
(* Properties of the name resolution.                                      *)
(***************************************************************************)
\* C16 (as claimed): a refresh cycle sends a discovery request only when the
\* map was empty at its start (the first request of a cycle finds the map as
\* the cycle found it), and no step replaces the name stored for a key.
C16_NoRediscoveryNoReplacement ==
    [][/\ (pc' \in {"discover", "fc_discover"} /\ ~discovered')
            => ~Truthy(resolved_names')
       /\ \A k \in DOMAIN resolved_names :
             k \in DOMAIN resolved_names' /\ resolved_names'[k] = resolved_names[k]]_vars

\* C17 (as claimed): a refresh cycle that runs to its end without having sent
\* a discovery request found no logical key missing (the map it ends with is
\* the map the previous cycle left).
C17_MissingKeyRediscovered ==
    [][(FetchForecast /\ ~discovered) => DOMAIN resolved_names = LogicalKeys]_vars

\* C18: no step removes a key from the map of resolved names.
C18_KeysOnlyGrow ==
    [][DOMAIN resolved_names \subseteq DOMAIN resolved_names']_vars

\* C18 witness: after discoveries that listed one series each, and one that
\* renamed a series, both keys are in the map
C18_Witness ==
    /\ DOMAIN resolved_names = {"innonet-tariff", "tariff-signal"}
    /\ resolved_names["innonet-tariff"] = "innonet-tariff-Y"
    /\ pc = "idle" /\ outcome = "fallback"

\* the discovery request failed or found nothing: a transport exception, a
\* status other than 200, a body that cannot be decoded, or no item
NothingFound(resp) ==
    \/ Failed(resp)
    \/ Kind(resp.json) = "invalid"
    \/ Len(extract_data_list(resp.json).items) = 0

\* C19: a discovery call that fails or returns an empty result leaves the map
\* of resolved names exactly as it was and raises nothing.
C19_FailedDiscoveryKeepsMap ==
    (returned # NotCalled /\ "names" \in DOMAIN args /\ NothingFound(args.response))
      => (~returned.raised /\ returned.value = args.names)

\* C19 witness: a transport exception with one name resolved before
C19_Witness ==
    /\ returned # NotCalled
    /\ "names" \in DOMAIN args
    /\ args.response = Exception
    /\ DOMAIN args.names = {"innonet-tariff"}
    /\ returned.value = args.names

(***************************************************************************)
(* Properties of the fetchers.                                             *)
(***************************************************************************)
\* an item of a data list that is a JSON object
IsObject(x) == DOMAIN x \cap {"none", "number", "chars"} = {}

\* the answer gives the fetcher fn data it can use: status 200 and a document
\* with a non-empty data list whose items (the first one, for the moment
\* fetcher) are objects.  Every other answer is a non-200 status, a transport
\* exception, or an empty or malformed payload
Usable(fn, resp) ==
    /\ Ok(resp)
    /\ Kind(resp.json) # "invalid"
    /\ LET items == extract_data_list(resp.json).items
       IN /\ Len(items) > 0
          /\ IF fn = "fetch_forecast"
             THEN \A i \in 1..Len(items) : IsObject(items[i])
             ELSE IsObject(items[1])

\* C14 (as claimed): neither fetcher raises, and on an answer that gives it no
\* usable data _fetch_timeseries_moment returns null and _fetch_forecast the
\* empty list.
C14_FetcherContract ==
    (returned # NotCalled /\ "response" \in DOMAIN args)
      => /\ ~returned.raised
         /\ ~Usable(returned.fn, args.response)
              => IF returned.fn = "fetch_forecast"
                 THEN Len(returned.value) = 0
                 ELSE returned.value = None

(***************************************************************************)
(* Properties of the normalizer.                                           *)
(***************************************************************************)
\* the variant key of each canonical key
Variant == [v |-> "Value", f |-> "Flag", t |-> "From"]

\* the unit makes _normalize_data convert the value
Converts(unit) == TruthyText(unit) /\ ContainsCent(unit.text)

\* C20 (as claimed): for an item that has a canonical key (v, f or t) and also
\* its variant key (Value, Flag, From), the normalizer leaves the value of the
\* canonical key as it was (for v: when no unit conversion applies).
C20_CopyIfAbsent ==
    (returned # NotCalled /\ "item" \in DOMAIN args /\ IsObject(args.item))
      => \A c \in DOMAIN Variant :
            (/\ c \in DOMAIN args.item
             /\ Variant[c] \in DOMAIN args.item
             /\ c = "v" => ~Converts(args.unit))
              => returned.value[c] = args.item[c]

\* the data field and the unit field of an object: the capitalised key where
\* the object has it, otherwise the lower-case one, otherwise nothing
DataOf(f) ==
    IF "Data" \in DOMAIN f THEN f.Data ELSE IF "data" \in DOMAIN f THEN f.data ELSE None
UnitOf(f) ==
    IF "Unit" \in DOMAIN f THEN f.Unit ELSE IF "unit" \in DOMAIN f THEN f.unit ELSE None

\* the document is a list, or an object whose data field leads to one
RECURSIVE HasList(_)
HasList(doc) ==
    \/ Kind(doc) = "list"
    \/ Kind(doc) = "dict" /\ HasList(DataOf(doc.fields))

\* the number of objects the data list of such a document is wrapped in
RECURSIVE Wrapping(_)
Wrapping(doc) ==
    IF Kind(doc) = "list" THEN 0 ELSE Wrapping(DataOf(doc.fields)) + 1

\* the data list is wrapped in exactly n objects
WrappedIn(doc, n) == HasList(doc) /\ Wrapping(doc) = n

\* the data list a document leads to
RECURSIVE ListOf(_)
ListOf(doc) ==
    IF Kind(doc) = "list" THEN doc.items ELSE ListOf(DataOf(doc.fields))

\* C23: _extract_data_list never raises; for a top-level list it returns the
\* payload and no unit, for a list wrapped in one object that list and the
\* unit of the object, for a list wrapped in two objects that list and the
\* outer unit, or the nested unit when the outer object gave none; for every
\* other document (a list wrapped deeper, no list at all) the empty list.
C23_ExtractShapes ==
    (returned # NotCalled /\ "json_response" \in DOMAIN args)
      => LET doc == args.json_response
         IN /\ ~returned.raised
            /\ returned.value.items =
                  IF \E n \in 0..2 : WrappedIn(doc, n) THEN ListOf(doc) ELSE <<>>
            /\ WrappedIn(doc, 0) => returned.value.unit = None
            /\ WrappedIn(doc, 1) => returned.value.unit = UnitOf(doc.fields)
            /\ WrappedIn(doc, 2) => returned.value.unit =
                            IF TruthyText(UnitOf(doc.fields)) THEN UnitOf(doc.fields)
                            ELSE UnitOf(DataOf(doc.fields).fields)

\* C23 witness: a list of two items wrapped twice, the unit given by the inner
\* object only, is returned with that unit
C23_Witness ==
    /\ returned # NotCalled
    /\ "json_response" \in DOMAIN args
    /\ WrappedIn(args.json_response, 2)
    /\ UnitOf(args.json_response.fields) = None
    /\ Len(returned.value.items) = 2
    /\ returned.value.unit = Text(CentPerKWh)

\* C21 (as claimed): applying the normalizer, with the same unit, to an item
\* the normalizer produced yields that item again.
C21_Idempotent ==
    (returned # NotCalled /\ "item" \in DOMAIN args /\ ~returned.raised)
      => normalize_data(returned.value, args.unit) = Returns(returned.value)

\* the value the conversion reads: that of Value when the item has one,
\* otherwise that of v
ValueRead(item) == IF "Value" \in DOMAIN item THEN item.Value ELSE item.v

\* a number, or the text of one
IsNumeric(x) == DOMAIN x \cap {"num", "digits", "huge"} # {}

\* x / 100
Hundredth(x) ==
    IF "num" \in DOMAIN x THEN [num |-> x.num, den |-> x.den * 100]
    ELSE IF "digits" \in DOMAIN x THEN [num |-> x.digits, den |-> 100]
    ELSE [huge |-> TRUE, den |-> 100]

\* C22 (as claimed): for an item with a value, the normalizer returns the
\* item with the value divided by 100 when the unit contains "cent" in any
\* letter case and the value is numeric, and with the value as it was under
\* every other unit (or none) and for every value that is not numeric.
C22_UnitConversion ==
    (/\ returned # NotCalled /\ "item" \in DOMAIN args /\ IsObject(args.item)
     /\ DOMAIN args.item \cap {"v", "Value"} # {})
      => /\ ~returned.raised
         /\ returned.value.v =
               IF Converts(args.unit) /\ IsNumeric(ValueRead(args.item))
               THEN Hundredth(ValueRead(args.item))
               ELSE ValueRead(args.item)

(***************************************************************************)
(* Properties of the Window Analyzer.                                      *)
(***************************************************************************)
Analyzed == result # None

\* indices of the points whose value differs from the low-tariff value
NonSunIdx(lst) == {i \in 1..Len(lst) : lst[i].v # SUN_WINDOW_VALUE}
SunIdx(lst) == {i \in 1..Len(lst) : lst[i].v = SUN_WINDOW_VALUE}

\* the timestamp of the first point of lst whose index is in S, None if none
StampOfFirst(lst, S) == IF S = {} THEN None ELSE lst[Earliest(S)].t

ValuesOf(lst) == [i \in 1..Len(lst) |-> lst[i].v]

\* C9: when the first point has the low-tariff value the window is active, it
\* starts at point 0 and ends at the first point whose value differs (null if
\* every point has the low-tariff value).
C9_ActiveWindow ==
    (Analyzed /\ forecast_list \in AnalyzerInputs /\ Len(forecast_list) > 0
       /\ forecast_list[1].v = SUN_WINDOW_VALUE)
      => /\ result.sun_window_active = TRUE
         /\ result.next_sun_start = forecast_list[1].t
         /\ result.next_sun_end = StampOfFirst(forecast_list, NonSunIdx(forecast_list))

\* C9 witness: [1,1,1,0,0] analysed: start = t[0], end = t[3]
C9_Witness ==
    /\ Analyzed
    /\ forecast_list \in AnalyzerInputs
    /\ ValuesOf(forecast_list) = <<1, 1, 1, 0, 0>>
    /\ result.next_sun_start = Iso(0)
    /\ result.next_sun_end = Iso(3 * Slot)

\* C10: when the first point does not have the low-tariff value the window is
\* inactive, it starts at the first point with the low-tariff value and ends at
\* the first later point whose value differs (null if none); both are null when
\* no point has the low-tariff value.
C10_InactiveWindow ==
    (Analyzed /\ forecast_list \in AnalyzerInputs /\ Len(forecast_list) > 0
       /\ forecast_list[1].v # SUN_WINDOW_VALUE)
      => /\ result.sun_window_active = FALSE
         /\ result.next_sun_start = StampOfFirst(forecast_list, SunIdx(forecast_list))
         /\ result.next_sun_end =
               IF SunIdx(forecast_list) = {} THEN None
               ELSE StampOfFirst(forecast_list,
                       {i \in NonSunIdx(forecast_list) : i > Earliest(SunIdx(forecast_list))})

\* C10 witness: [0,0,1,1,0] analysed: start = t[2], end = t[4]
C10_Witness ==
    /\ Analyzed
    /\ forecast_list \in AnalyzerInputs
    /\ ValuesOf(forecast_list) = <<0, 0, 1, 1, 0>>
    /\ result.sun_window_active = FALSE
    /\ result.next_sun_start = Iso(2 * Slot)
    /\ result.next_sun_end = Iso(4 * Slot)

\* what the analyzer returns when it has nothing to analyse
NoWindow ==
    [sun_window_active |-> FALSE, next_sun_start |-> None,
     next_sun_end |-> None, tariff_signal_now |-> None]

\* C11: on an empty or null forecast sequence the analyzer returns active =
\* false, start = null, end = null, current = null, and does not raise.
C11_EmptyForecastNoWindow ==
    (Analyzed /\ (forecast_list = NoneList \/ Len(forecast_list) = 0))
      => result = NoWindow

\* C11 witness: None analysed, the four defaults returned
C11_Witness ==
    /\ Analyzed
    /\ forecast_list = NoneList
    /\ result.sun_window_active = FALSE
    /\ result.tariff_signal_now = None

\* the index of the point of lst that supplied the timestamp t (the timestamps
\* of a forecast are distinct)
IndexOf(lst, t) == CHOOSE i \in 1..Len(lst) : lst[i].t = t

\* C30: the window the analyzer returns is well-formed: an end comes with a
\* start, the point that supplied the end lies after the point that supplied
\* the start, every point from the start up to the end has the low-tariff
\* value, and the window is active exactly when the current point (the first
\* of the sequence) has the low-tariff value.
C30_WindowWellFormed ==
    (Analyzed /\ forecast_list \in AnalyzerInputs)
      => /\ result.next_sun_end # None => result.next_sun_start # None
         /\ result.next_sun_end # None =>
               LET s == IndexOf(forecast_list, result.next_sun_start)
                   e == IndexOf(forecast_list, result.next_sun_end)
               IN /\ s < e
                  /\ \A k \in s..(e - 1) : forecast_list[k].v = SUN_WINDOW_VALUE
         /\ result.sun_window_active =
               (Len(forecast_list) > 0 /\ forecast_list[1].v = SUN_WINDOW_VALUE)
         /\ Len(forecast_list) > 0 => result.tariff_signal_now = forecast_list[1]

\* C30 witness: [2,1,1,0,1] analysed: inactive, start = t[1], end = t[3]
C30_Witness ==
    /\ Analyzed
    /\ forecast_list \in AnalyzerInputs
    /\ ValuesOf(forecast_list) = <<2, 1, 1, 0, 1>>
    /\ result.sun_window_active = FALSE
    /\ IndexOf(forecast_list, result.next_sun_start) = 2
    /\ IndexOf(forecast_list, result.next_sun_end) = 4

====
